---- MODULE Spec2Model ----
(***************************************************************************)
(* Model of go-turing: the single-tape Turing machine of package turing    *)
(* (Program.Validate, NewMachine, Machine.Copy, Machine.ExecCtx,           *)
(* Machine.step) and the .tur reader of package filereader.                *)
(*                                                                         *)
(* Go maps are reference values.  A tape (map[int]rune) is therefore an    *)
(* address into `heap`; the Machine field `tape` and the maps held by the  *)
(* caller (its input, the map returned by Exec) are addresses, so that     *)
(* sharing between them is something the model can exhibit.                *)
(***************************************************************************)
EXTENDS Integers, Sequences, FiniteSets, TLC

\* ------------------------------------------------------------------ bounds
MaxTapeBound  == 3   \* largest maxTapeLength a configuration is given
MaxStepsBound == 2   \* largest maxSteps a configuration is given
MaxInputCell  == 1   \* input maps use cells 0..MaxInputCell
UintModulus   == 8   \* the step counter is a uint: it wraps (scaled-down width)
MaxCalls      == 3   \* Exec calls made in one behaviour of the reuse model
MaxFieldLen   == 3   \* a transition field has at most MaxFieldLen characters
MaxRowFields  == 2   \* a table row has at most MaxRowFields fields after its symbol
WideUintModulus == 128 \* the width (scaled down) that holds the step limits of the tests

\* ------------------------------------------------------- values of the code
Left  == -1
Right == 1
Stay  == 0

Blank == " "

Nil == "nil"
ErrStartStateEmpty      == "start state is empty"
ErrTerminalStateEmpty   == "terminal state is empty"
ErrInvalidMaxTapeLength == "invalid max tape length"
ErrInvalidMoveDirection == "invalid move direction"
ErrStateNotFound        == "state not found"
ErrTransitionNotFound   == "transition not found"
ErrInfiniteLoop         == "infinite loop"
ErrStepsExceeded        == "steps exceeded"
ErrUnexpectedSymbol     == "unexpected symbol"
ErrTapeOver             == "tape is over"
ErrCanceled             == "context canceled"

NilRef    == 0            \* the nil map
NoMachine == [exists |-> FALSE]

\* len(map)
Len_(t) == Cardinality(DOMAIN t)

\* make(map[int]rune)
EmptyMap == [i \in {} |-> Blank]

\* ------------------------------------------------------------- Validate
\* mutant of EntryError: the write symbol is not checked
EntryError_AnyWrite(tp, transition, alphabet, terminalState) ==
    IF transition.Move # Left /\ transition.Move # Right /\ transition.Move # Stay
      THEN ErrInvalidMoveDirection
    ELSE IF transition.NextState = terminalState
      THEN Nil
    ELSE IF transition.NextState \notin DOMAIN tp
      THEN ErrStateNotFound
    ELSE Nil

\* mutant of EntryError: the next state is looked at before the write symbol
EntryError_StateBeforeWrite(tp, transition, alphabet, terminalState) ==
    IF transition.Move # Left /\ transition.Move # Right /\ transition.Move # Stay
      THEN ErrInvalidMoveDirection
    ELSE IF transition.NextState # terminalState /\ transition.NextState \notin DOMAIN tp
      THEN ErrStateNotFound
    ELSE IF transition.Write \notin alphabet
      THEN ErrUnexpectedSymbol
    ELSE Nil

\* mutant of EntryError: the next state is not checked
EntryError_AnyNextState(tp, transition, alphabet, terminalState) ==
    IF transition.Move # Left /\ transition.Move # Right /\ transition.Move # Stay
      THEN ErrInvalidMoveDirection
    ELSE IF transition.Write \notin alphabet
      THEN ErrUnexpectedSymbol
    ELSE Nil

\* mutant of EntryError: the terminal state, too, has to be a key
EntryError_TerminalIsKey(tp, transition, alphabet, terminalState) ==
    IF transition.Move # Left /\ transition.Move # Right /\ transition.Move # Stay
      THEN ErrInvalidMoveDirection
    ELSE IF transition.Write \notin alphabet
      THEN ErrUnexpectedSymbol
    ELSE IF transition.NextState \notin DOMAIN tp
      THEN ErrStateNotFound
    ELSE Nil

\* The error one entry of the program raises, Nil when it raises none.
EntryError(tp, transition, alphabet, terminalState) ==
    IF transition.Move # Left /\ transition.Move # Right /\ transition.Move # Stay
      THEN ErrInvalidMoveDirection
    ELSE IF transition.Write \notin alphabet
      THEN ErrUnexpectedSymbol
    ELSE IF transition.NextState = terminalState
      THEN Nil
    ELSE IF transition.NextState \notin DOMAIN tp
      THEN ErrStateNotFound
    ELSE Nil

\* Validate ranges over Go maps, whose iteration order is not fixed: it
\* returns the error of the first offending entry it meets, so the possible
\* results are the errors of all offending entries (Nil when there is none).
Validate(tp, alphabet, terminalState) ==
    LET errs == { EntryError(tp, tp[state][symbol], alphabet, terminalState) :
                    <<state, symbol>> \in
                       UNION { {<<q, s>> : s \in DOMAIN tp[q]} : q \in DOMAIN tp } }
    IN  IF errs \ {Nil} = {} THEN {Nil} ELSE errs \ {Nil}

\* ------------------------------------------------------------ NewMachine
\* alphabet is the string of declared symbols (a sequence of characters).
\* The result is the set of outcomes [machine, err] (Validate's order).
AlphabetSet(alphabet) == { alphabet[i] : i \in DOMAIN alphabet } \cup {Blank}

\* mutant of NewMachine: the program is validated before maxTapeLength is
\* looked at
NewMachine_ValidateFirst(alphabet, startState, terminalState, program, maxTapeLength, maxSteps, ref) ==
    LET a == AlphabetSet(alphabet) IN
    IF startState = "" THEN { [machine |-> NoMachine, err |-> ErrStartStateEmpty] }
    ELSE IF terminalState = "" THEN { [machine |-> NoMachine, err |-> ErrTerminalStateEmpty] }
    ELSE { IF e # Nil
             THEN [machine |-> NoMachine, err |-> e]
           ELSE IF maxTapeLength = 0
             THEN [machine |-> NoMachine, err |-> ErrInvalidMaxTapeLength]
             ELSE [machine |->
                     [exists        |-> TRUE,
                      carriage      |-> 0,
                      tape          |-> ref,
                      state         |-> "",
                      startState    |-> startState,
                      terminalState |-> terminalState,
                      alphabet      |-> a,
                      program       |-> program,
                      steps         |-> 0,
                      maxTapeLength |-> maxTapeLength,
                      maxSteps      |-> maxSteps],
                   err |-> Nil]
           : e \in Validate(program, a, terminalState) }

NewMachine(alphabet, startState, terminalState, program, maxTapeLength, maxSteps, ref) ==
    LET a == AlphabetSet(alphabet) IN
    IF startState = "" THEN { [machine |-> NoMachine, err |-> ErrStartStateEmpty] }
    ELSE IF terminalState = "" THEN { [machine |-> NoMachine, err |-> ErrTerminalStateEmpty] }
    ELSE IF maxTapeLength = 0 THEN { [machine |-> NoMachine, err |-> ErrInvalidMaxTapeLength] }
    ELSE { IF e # Nil
             THEN [machine |-> NoMachine, err |-> e]
             ELSE [machine |->
                     [exists        |-> TRUE,
                      carriage      |-> 0,
                      tape          |-> ref,
                      state         |-> "",
                      startState    |-> startState,
                      terminalState |-> terminalState,
                      alphabet      |-> a,
                      program       |-> program,
                      steps         |-> 0,
                      maxTapeLength |-> maxTapeLength,
                      maxSteps      |-> maxSteps],
                   err |-> Nil]
           : e \in Validate(program, a, terminalState) }

\* ------------------------------------------------------------------ step
\* read: the symbol of the cell the carriage points to, ' ' when absent.
read(m, t) == IF m.carriage \in DOMAIN t THEN t[m.carriage] ELSE Blank

\* write: m.tape[m.carriage] = sym
write(m, t, sym) ==
    [i \in DOMAIN t \cup {m.carriage} |-> IF i = m.carriage THEN sym ELSE t[i]]

\* mutant of move: the direction is taken with the wrong sign
move_Mirrored(m, d) == [m EXCEPT !.carriage = @ - d]

\* move: m.carriage += int(d)
move(m, d) == [m EXCEPT !.carriage = @ + d]

\* steps is a uint.  Its width is scaled down: the narrow one for the small
\* step limits, the wide one where maxSteps would not fit in the narrow one.
uintModulus(m) == IF m.maxSteps < UintModulus THEN UintModulus ELSE WideUintModulus

\* `m.program[m.state][sym]` with its ok flag: is the entry there?
hasTransition(m, sym) ==
    m.state \in DOMAIN m.program /\ sym \in DOMAIN m.program[m.state]

\* mutant of infiniteLoop: the symbol written is not compared
infiniteLoop_AnyWrite(m, sym, transition) ==
    transition.Move = Stay /\ transition.NextState = m.state

\* "is current transition an infinite loop?"
infiniteLoop(m, sym, transition) ==
    transition.Move = Stay /\ transition.NextState = m.state /\ transition.Write = sym

\* mutants of limits: the step limit ends the run as a halt; the step limit
\* compared with > ; the step limit checked before the tape limit
limits_StepsHalt(m, t) ==
    IF Len_(t) >= m.maxTapeLength
      THEN [ok |-> FALSE, err |-> ErrTapeOver]
    ELSE IF m.maxSteps > 0 /\ m.steps >= m.maxSteps
      THEN [ok |-> FALSE, err |-> Nil]
    ELSE [ok |-> TRUE, err |-> Nil]

limits_StrictSteps(m, t) ==
    IF Len_(t) >= m.maxTapeLength
      THEN [ok |-> FALSE, err |-> ErrTapeOver]
    ELSE IF m.maxSteps > 0 /\ m.steps > m.maxSteps
      THEN [ok |-> FALSE, err |-> ErrStepsExceeded]
    ELSE [ok |-> TRUE, err |-> Nil]

limits_StepsFirst(m, t) ==
    IF m.maxSteps > 0 /\ m.steps >= m.maxSteps
      THEN [ok |-> FALSE, err |-> ErrStepsExceeded]
    ELSE IF Len_(t) >= m.maxTapeLength
      THEN [ok |-> FALSE, err |-> ErrTapeOver]
    ELSE [ok |-> TRUE, err |-> Nil]

\* The two checks that end step, on the machine and tape as the transition
\* left them: the returned (ok, err).
limits(m, t) ==
    IF Len_(t) >= m.maxTapeLength
      THEN [ok |-> FALSE, err |-> ErrTapeOver]
    ELSE IF m.maxSteps > 0 /\ m.steps >= m.maxSteps
      THEN [ok |-> FALSE, err |-> ErrStepsExceeded]
    ELSE [ok |-> TRUE, err |-> Nil]

\* mutant of apply: the step counter is not incremented
apply_NoCount(m, t, transition) ==
    [m    |-> [move(m, transition.Move) EXCEPT !.state = transition.NextState],
     tape |-> write(m, t, transition.Write)]

\* mutant of apply: the carriage is moved before the symbol is written
apply_MoveFirst(m, t, transition) ==
    [m    |-> [move(m, transition.Move) EXCEPT
                 !.state = transition.NextState,
                 !.steps = (@ + 1) % uintModulus(m)],
     tape |-> write(move(m, transition.Move), t, transition.Write)]

\* m.write(transition.Write); m.move(transition.Move);
\* m.state = transition.NextState; m.steps++
apply(m, t, transition) ==
    [m    |-> [move(m, transition.Move) EXCEPT
                 !.state = transition.NextState,
                 !.steps = (@ + 1) % uintModulus(m)],
     tape |-> write(m, t, transition.Write)]

\* One call of Machine.step on the machine m whose tape map holds t.
\* Result: the returned (ok, err), the machine fields and the tape contents
\* after the call.
\* mutant of step: a missing transition ends the run like the terminal
\* state does, without an error
step_MissingHalts(m, t) ==
    IF m.state = m.terminalState
      THEN [ok |-> FALSE, err |-> Nil, m |-> m, tape |-> t]
    ELSE LET sym == read(m, t) IN
      IF sym \notin m.alphabet
        THEN [ok |-> FALSE, err |-> ErrUnexpectedSymbol, m |-> m, tape |-> t]
      ELSE IF ~hasTransition(m, sym)
        THEN [ok |-> FALSE, err |-> Nil, m |-> m, tape |-> t]
      ELSE LET transition == m.program[m.state][sym] IN
        IF infiniteLoop(m, sym, transition)
          THEN [ok |-> FALSE, err |-> ErrInfiniteLoop, m |-> m, tape |-> t]
        ELSE
          LET a == apply(m, t, transition)
              l == limits(a.m, a.tape)
          IN  [ok |-> l.ok, err |-> l.err, m |-> a.m, tape |-> a.tape]

\* mutant of step: the transition is looked up before the symbol read is
\* compared with the alphabet
step_LookupFirst(m, t) ==
    IF m.state = m.terminalState
      THEN [ok |-> FALSE, err |-> Nil, m |-> m, tape |-> t]
    ELSE LET sym == read(m, t) IN
      IF ~hasTransition(m, sym)
        THEN [ok |-> FALSE, err |-> ErrTransitionNotFound, m |-> m, tape |-> t]
      ELSE IF sym \notin m.alphabet
        THEN [ok |-> FALSE, err |-> ErrUnexpectedSymbol, m |-> m, tape |-> t]
      ELSE LET transition == m.program[m.state][sym] IN
        IF infiniteLoop(m, sym, transition)
          THEN [ok |-> FALSE, err |-> ErrInfiniteLoop, m |-> m, tape |-> t]
        ELSE
          LET a == apply(m, t, transition)
              l == limits(a.m, a.tape)
          IN  [ok |-> l.ok, err |-> l.err, m |-> a.m, tape |-> a.tape]

step(m, t) ==
    IF m.state = m.terminalState
      THEN [ok |-> FALSE, err |-> Nil, m |-> m, tape |-> t]
    ELSE LET sym == read(m, t) IN
      IF sym \notin m.alphabet
        THEN [ok |-> FALSE, err |-> ErrUnexpectedSymbol, m |-> m, tape |-> t]
      ELSE IF ~hasTransition(m, sym)
        THEN [ok |-> FALSE, err |-> ErrTransitionNotFound, m |-> m, tape |-> t]
      ELSE LET transition == m.program[m.state][sym] IN
        IF infiniteLoop(m, sym, transition)
          THEN [ok |-> FALSE, err |-> ErrInfiniteLoop, m |-> m, tape |-> t]
        ELSE
          LET a == apply(m, t, transition)
              l == limits(a.m, a.tape)
          IN  [ok |-> l.ok, err |-> l.err, m |-> a.m, tape |-> a.tape]

\* ------------------------------------------------------------ the state
VARIABLES
    mach,      \* mach[m]: the Machine struct m (NoMachine while not created)
    heap,      \* heap[r]: the contents of the map[int]rune at address r
    pc,        \* pc[m]: "idle" (no call made), "loop" (inside ExecCtx), "returned"
    ctxDone,   \* ctxDone[m]: ctx.Err() != nil for the context of m's call
    input,     \* input[m]: address of the map the caller passed to m's call
    result,    \* result[m]: the (tape, err) the last call on m returned
    callsLeft, \* Exec calls the caller may still make
    inputWas,  \* history: contents of input[m] at the moment of the call
    alone,     \* history: the same call run on private values, step for step
    held,      \* history: addresses of the tapes earlier calls returned
    arg,       \* the arguments of the package function that was called
    out,       \* what that call returned
    rd         \* the locals of a running ReadCtx

vars == <<mach, heap, pc, ctxDone, input, result, callsLeft, inputWas, alone, held,
          arg, out, rd>>

\* No package function has been called; no ReadCtx is running.
NoCall   == [op |-> "none"]
NoReader == [pc |-> "none"]

\* The variables the package functions use, and those of the machines.
callVars    == <<arg, out, rd>>
machineVars == <<mach, heap, pc, ctxDone, input, result, callsLeft, inputWas, alone, held>>

\* Machine 1 is the one NewMachine returns; 2 and 3 are made by Copy (the two
\* machines of two parallel runs).
Machines == {1, 2, 3}

NoResult == [tape |-> NilRef, err |-> Nil]

\* ----------------------------------------------------- inputs of the model
Symbols       == {Blank, "1"}
Alphabets     == {<<>>, <<"1">>}
StartStates   == {"Q0", "Q1"}
TerminalState == "Q0"
Carriages     == {0}

T(nextState, move_, write_) == [NextState |-> nextState, Move |-> move_, Write |-> write_]

\* Every program whose only key is Q1, over the symbols ' ' and '1' (among
\* them the programs of the tests: increment, go left for ever, stay for ever).
OneStateTransitions == [NextState : {"Q0", "Q1"}, Move : {Left, Right, Stay}, Write : Symbols]

OneStatePrograms ==
    { [q \in {"Q1"} |-> row] :
        row \in UNION { [D -> OneStateTransitions] : D \in SUBSET Symbols } }

\* The programs of the tests: f(x) = x + 1 in unary, "go left infinitely",
\* "just infinite loop".
PlusOne     == [q \in {"Q1"} |-> (Blank :> T("Q0", Stay, "1")) @@ ("1" :> T("Q1", Left, "1"))]
GoLeft      == [q \in {"Q1"} |-> (Blank :> T("Q1", Left, Blank))]
StayForever == [q \in {"Q1"} |-> (Blank :> T("Q1", Stay, Blank))]

TestPrograms == {PlusOne, GoLeft, StayForever}

\* Programs with two states: Q1 and Q2 exchange control without moving,
\* sweep right and left, or Q2 is a key without entries.
Oscillate == [q \in {"Q1", "Q2"} |->
                IF q = "Q1" THEN (Blank :> T("Q2", Stay, Blank))
                            ELSE (Blank :> T("Q1", Stay, Blank))]
Blink     == [q \in {"Q1", "Q2"} |->
                IF q = "Q1" THEN (Blank :> T("Q2", Stay, "1"))
                            ELSE ("1" :> T("Q1", Stay, Blank))]
Sweep     == [q \in {"Q1", "Q2"} |->
                IF q = "Q1" THEN (Blank :> T("Q2", Right, Blank)) @@ ("1" :> T("Q2", Right, "1"))
                            ELSE (Blank :> T("Q1", Left, Blank)) @@ ("1" :> T("Q0", Left, "1"))]
DeadEnd   == [q \in {"Q1", "Q2"} |->
                IF q = "Q1" THEN (Blank :> T("Q2", Right, Blank))
                            ELSE EmptyMap]

TwoStatePrograms == {Oscillate, Blink, Sweep, DeadEnd}

Programs == {EmptyMap} \cup OneStatePrograms \cup TwoStatePrograms

Inputs == UNION { [D -> Symbols] : D \in SUBSET (0..MaxInputCell) }

\* --------------------------------------------------------------- ExecCtx
\* mutants of tapeCopy: the input map itself becomes the tape; the map the
\* machine already has is refilled instead of a new one being made
tapeCopy_Alias(h, old, inputRef) ==
    [heap |-> h, ref |-> inputRef]

tapeCopy_Refill(h, old, inputRef) ==
    [heap |-> [h EXCEPT ![old] = h[inputRef]], ref |-> old]

\* tape := make(map[int]rune, len(input)); for i, symbol := range input {...}
\* A new map at a fresh address, holding the cells of the input map.
tapeCopy(h, old, inputRef) ==
    [heap |-> Append(h, h[inputRef]), ref |-> Len(h) + 1]

\* mutant of reset: the step counter of the previous call is kept
reset_KeepSteps(m, carriage, ref) ==
    [m EXCEPT !.carriage = carriage, !.state = m.startState, !.tape = ref]

\* m.carriage = carriage; m.state = m.startState; m.steps = 0; m.tape = tape
reset(m, carriage, ref) ==
    [m EXCEPT !.carriage = carriage, !.state = m.startState, !.steps = 0, !.tape = ref]

\* The call m.ExecCtx(ctx, carriage, input) up to its loop.  The caller has
\* built `in` as a map of its own (address Len(heap)+1) before the call.
ExecCtx(m, carriage, in) ==
    /\ mach[m].exists
    /\ pc[m] # "loop"
    /\ callsLeft > 0
    /\ LET inputRef == Len(heap) + 1
           c        == tapeCopy(Append(heap, in), mach[m].tape, inputRef)
       IN  /\ heap' = c.heap
           /\ mach' = [mach EXCEPT ![m] = reset(mach[m], carriage, c.ref)]
           /\ input' = [input EXCEPT ![m] = inputRef]
           /\ inputWas' = [inputWas EXCEPT ![m] = in]
           /\ alone' = [alone EXCEPT ![m] =
                          [carriage |-> carriage, state |-> mach[m].startState,
                           steps |-> 0, tape |-> in, err |-> Nil]]
    /\ pc' = [pc EXCEPT ![m] = "loop"]
    /\ ctxDone' = [ctxDone EXCEPT ![m] = FALSE]
    /\ result' = [result EXCEPT ![m] = NoResult]
    /\ callsLeft' = callsLeft - 1
    /\ UNCHANGED held
    /\ UNCHANGED callVars

\* The machine m as it would be with the private values of `alone`.
AloneMachine(m) ==
    [mach[m] EXCEPT !.carriage = alone[m].carriage,
                    !.state    = alone[m].state,
                    !.steps    = alone[m].steps]

\* mutant of ctxErr: the context is looked at only while the machine is
\* outside its terminal state
ctxErr_UnlessHalted(m) ==
    IF ctxDone[m] /\ mach[m].state # mach[m].terminalState THEN ErrCanceled ELSE Nil

\* ctx.Err(): nil until the context of the call on m is cancelled
ctxErr(m) ==
    IF ctxDone[m] THEN ErrCanceled ELSE Nil

\* One iteration of the loop of ExecCtx, the return included:
\*   if ctx.Err() != nil { return nil, ctx.Err() }
\*   ok, err = m.step(); if err != nil { return nil, err }
\* and, when ok is false, return m.tape, nil.
ExecCtxLoop(m) ==
    /\ pc[m] = "loop"
    /\ IF ctxErr(m) # Nil
         THEN /\ result' = [result EXCEPT ![m] = [tape |-> NilRef, err |-> ctxErr(m)]]
              /\ pc' = [pc EXCEPT ![m] = "returned"]
              /\ UNCHANGED <<mach, heap, alone, held>>
         ELSE LET s == step(mach[m], heap[mach[m].tape])
                  a == step(AloneMachine(m), alone[m].tape)
              IN  /\ mach' = [mach EXCEPT ![m] = s.m]
                  /\ heap' = [heap EXCEPT ![mach[m].tape] = s.tape]
                  /\ alone' = [alone EXCEPT ![m] =
                                 [carriage |-> a.m.carriage, state |-> a.m.state,
                                  steps |-> a.m.steps, tape |-> a.tape, err |-> a.err]]
                  /\ IF s.err # Nil
                       THEN /\ result' = [result EXCEPT ![m] = [tape |-> NilRef, err |-> s.err]]
                            /\ pc' = [pc EXCEPT ![m] = "returned"]
                            /\ UNCHANGED held
                     ELSE IF s.ok
                       THEN UNCHANGED <<result, pc, held>>
                     ELSE /\ result' = [result EXCEPT ![m] = [tape |-> s.m.tape, err |-> Nil]]
                          /\ pc' = [pc EXCEPT ![m] = "returned"]
                          /\ held' = held \cup {s.m.tape}
    /\ UNCHANGED <<ctxDone, input, callsLeft, inputWas>>
    /\ UNCHANGED callVars

\* The caller cancels the context of the call running on m.
Cancel(m) ==
    /\ pc[m] = "loop"
    /\ ~ctxDone[m]
    /\ ctxDone' = [ctxDone EXCEPT ![m] = TRUE]
    /\ UNCHANGED <<mach, heap, pc, input, result, callsLeft, inputWas, alone, held>>
    /\ UNCHANGED callVars

\* n := m.Copy(): a new Machine with the fields of m, the tape map shared.
\* The caller copies a machine that is not inside a call (a copy taken while
\* ExecCtx writes the fields would be a data race of the caller's).
Copy(m, n) ==
    /\ mach[m].exists
    /\ pc[m] # "loop"
    /\ ~mach[n].exists
    /\ \A k \in Machines : k < n => mach[k].exists
    /\ mach' = [mach EXCEPT ![n] = mach[m]]
    /\ UNCHANGED <<heap, pc, ctxDone, input, result, callsLeft, inputWas, alone, held>>
    /\ UNCHANGED callVars

\* The caller writes into the map the last call on m returned to it:
\* tape[i] = sym.
CallerMutate(m, i, sym) ==
    /\ pc[m] = "returned"
    /\ result[m].tape # NilRef
    /\ LET t == heap[result[m].tape] IN
         /\ ~(i \in DOMAIN t /\ t[i] = sym)
         /\ heap' = [heap EXCEPT ![result[m].tape] =
                       [j \in DOMAIN t \cup {i} |-> IF j = i THEN sym ELSE t[j]]]
    /\ UNCHANGED <<mach, pc, ctxDone, input, result, callsLeft, inputWas, alone, held>>
    /\ UNCHANGED callVars

\* ------------------------------------------------------------------ Init
\* The state after NewMachine returned machine 1 without error, for one of
\* the given configurations; the caller will make `calls` calls.
InitWith(programs, alphabets, startStates, tapeLimits, stepLimits, calls) ==
    \E alphabet \in alphabets, startState \in startStates, program \in programs,
       maxTapeLength \in tapeLimits, maxSteps \in stepLimits :
      \E r \in NewMachine(alphabet, startState, TerminalState, program,
                          maxTapeLength, maxSteps, 1) :
        /\ r.err = Nil
        /\ mach = [m \in Machines |-> IF m = 1 THEN r.machine ELSE NoMachine]
        /\ heap = <<EmptyMap>>
        /\ pc = [m \in Machines |-> "idle"]
        /\ ctxDone = [m \in Machines |-> FALSE]
        /\ input = [m \in Machines |-> NilRef]
        /\ result = [m \in Machines |-> NoResult]
        /\ callsLeft = calls
        /\ inputWas = [m \in Machines |-> EmptyMap]
        /\ alone = [m \in Machines |->
                      [carriage |-> 0, state |-> "", steps |-> 0, tape |-> EmptyMap,
                       err |-> Nil]]
        /\ held = {}
        /\ arg = NoCall
        /\ out = NoCall
        /\ rd = NoReader

\* One call on one machine, every program of the family.
Init == InitWith(Programs, Alphabets, StartStates, 1..MaxTapeBound, 0..MaxStepsBound, 1)

Next ==
    \/ \E m \in Machines, carriage \in Carriages, in \in Inputs : ExecCtx(m, carriage, in)
    \/ \E m \in Machines : ExecCtxLoop(m)
    \/ \E m \in Machines : Cancel(m)

Spec == Init /\ [][Next]_vars

\* The Go scheduler keeps a running call running: an iteration of the loop
\* of ExecCtx that can be made is eventually made.
LiveInit ==
    InitWith(TestPrograms \cup TwoStatePrograms, Alphabets, StartStates,
             1..MaxTapeBound, 0..MaxStepsBound, 1)

LiveSpec == LiveInit /\ [][Next]_vars /\ \A m \in Machines : WF_vars(ExecCtxLoop(m))

\* Reuse: up to MaxCalls calls of Exec (never cancelled) on machine 1 and on
\* copies of it, their iterations interleaved, the caller writing into the
\* tapes it was returned.
ReuseInputs == {EmptyMap, (0 :> "1"), (0 :> "1") @@ (1 :> "1")}

ReuseInit ==
    InitWith({PlusOne, GoLeft, Sweep}, {<<"1">>}, {"Q1"},
             {MaxTapeBound}, {MaxStepsBound}, MaxCalls)

ReuseNext ==
    \/ \E m \in Machines, carriage \in Carriages, in \in ReuseInputs : ExecCtx(m, carriage, in)
    \/ \E m \in Machines : ExecCtxLoop(m)
    \/ \E m, n \in Machines : Copy(m, n)
    \/ \E m \in Machines, sym \in Symbols : CallerMutate(m, 0, sym)

ReuseSpec == ReuseInit /\ [][ReuseNext]_vars

\* ------------------------------------------------ the machines of the tests
\* TestMachine_Exec_Plus_One_Program: NewMachine("1", "Q1", "Q0", program, 20,
\* 10), then for i = 0..9 Exec(0, input) with '1' in the cells 0..i.  Here
\* MaxCalls runs are made one after another, on inputs in any order.
IncrementMaxTape  == 20
IncrementMaxSteps == 10
IncrementLargest  == 9

UnaryInput(n) == [k \in 0..n |-> "1"]

IncrementInputs == { UnaryInput(n) : n \in 0..IncrementLargest }

IncrementInit ==
    InitWith({PlusOne}, {<<"1">>}, {"Q1"}, {IncrementMaxTape}, {IncrementMaxSteps}, MaxCalls)

IncrementNext ==
    \/ \E m \in Machines, in \in IncrementInputs : ExecCtx(m, 0, in)
    \/ \E m \in Machines : ExecCtxLoop(m)

IncrementSpec == IncrementInit /\ [][IncrementNext]_vars

\* TestMachine_Exec_Addition_Program: NewMachine("1+", "Q1", "Q0", program,
\* 100, 100), then for i, j = 1..9 Exec(-i, input) with '1' in the cells
\* -i..-1, '+' in cell 0 and '1' in the cells 1..j.  One run is made.
AdditionMaxTape  == 100
AdditionMaxSteps == 100
AdditionLargest  == 9

Addition ==
    [q \in {"Q1", "Q2", "Q3"} |->
       IF q = "Q1" THEN ("1" :> T("Q2", Right, Blank))
       ELSE IF q = "Q2" THEN (Blank :> T("Q3", Left, Blank))
                             @@ ("1" :> T("Q2", Right, "1"))
                             @@ ("+" :> T("Q2", Right, "1"))
       ELSE ("1" :> T("Q0", Stay, Blank))]

SumInput(i, j) == [k \in (-i)..j |-> IF k = 0 THEN "+" ELSE "1"]

AdditionInit ==
    InitWith({Addition}, {<<"1", "+">>}, {"Q1"}, {AdditionMaxTape}, {AdditionMaxSteps}, 1)

AdditionNext ==
    \/ \E m \in Machines, i, j \in 1..AdditionLargest : ExecCtx(m, -i, SumInput(i, j))
    \/ \E m \in Machines : ExecCtxLoop(m)

AdditionSpec == AdditionInit /\ [][AdditionNext]_vars

\* ------------------------------------------- Validate and NewMachine
\* The package functions are called on their own: no machine exists yet.
CallInit ==
    /\ mach = [m \in Machines |-> NoMachine]
    /\ heap = <<EmptyMap>>
    /\ pc = [m \in Machines |-> "idle"]
    /\ ctxDone = [m \in Machines |-> FALSE]
    /\ input = [m \in Machines |-> NilRef]
    /\ result = [m \in Machines |-> NoResult]
    /\ callsLeft = 0
    /\ inputWas = [m \in Machines |-> EmptyMap]
    /\ alone = [m \in Machines |->
                  [carriage |-> 0, state |-> "", steps |-> 0, tape |-> EmptyMap,
                   err |-> Nil]]
    /\ held = {}
    /\ arg = NoCall
    /\ out = NoCall
    /\ rd = NoReader

\* Programs that need not be valid: the key Q1 with any row over ' ' and '1',
\* alone or next to a key Q2 without entries.  A move may be the -2 of
\* TestProgram_Validate, a next state may be Q2 whether or not it is a key.
InvalidMove == -2

AnyTransitions ==
    [NextState : {"Q0", "Q1", "Q2"}, Move : {Left, Right, Stay, InvalidMove}, Write : Symbols]

AnyRows == UNION { [D -> AnyTransitions] : D \in SUBSET Symbols }

AnyPrograms ==
    {EmptyMap} \cup { ("Q1" :> row) : row \in AnyRows }
               \cup { ("Q1" :> row) @@ ("Q2" :> EmptyMap) : row \in AnyRows }

\* err := tp.Validate(alphabet, terminalState), for one iteration order of
\* the maps.  One call is made.
CallValidate ==
    /\ arg = NoCall
    /\ \E tp \in AnyPrograms, alphabet \in Alphabets :
         \E err \in Validate(tp, AlphabetSet(alphabet), TerminalState) :
           /\ arg' = [op |-> "Validate", program |-> tp,
                      alphabet |-> AlphabetSet(alphabet),
                      terminalState |-> TerminalState]
           /\ out' = [err |-> err]
    /\ UNCHANGED rd
    /\ UNCHANGED machineVars

\* m, err := NewMachine(alphabet, startState, terminalState, program,
\*                       maxTapeLength, 0)
CallNewMachine ==
    /\ arg = NoCall
    /\ \E alphabet \in Alphabets, startState \in {"", "Q1"},
          terminalState \in {"", TerminalState}, program \in AnyPrograms,
          maxTapeLength \in {0, MaxTapeBound} :
         \E r \in NewMachine(alphabet, startState, terminalState, program,
                             maxTapeLength, 0, 1) :
           /\ arg' = [op |-> "NewMachine", program |-> program,
                      alphabet |-> AlphabetSet(alphabet), startState |-> startState,
                      terminalState |-> terminalState, maxTapeLength |-> maxTapeLength]
           /\ out' = r
    /\ UNCHANGED rd
    /\ UNCHANGED machineVars

ValidateNext == CallValidate \/ CallNewMachine

ValidateSpec == CallInit /\ [][ValidateNext]_vars

\* One call on a machine NewMachine accepted, the program drawn from all of
\* AnyPrograms (NewMachine turns the invalid ones down); the start state is
\* the key Q1 or Q2, which need not be a key.
AcceptedInit ==
    InitWith(AnyPrograms, Alphabets, {"Q1", "Q2"}, {MaxTapeBound}, {MaxStepsBound}, 1)

AcceptedSpec == AcceptedInit /\ [][Next]_vars

\* ----------------------------------------------------- ParseTransition
\* A Go string is the sequence of its characters (each a string of length
\* one); a rune is such a character.  Str(s) is the string itself.
RECURSIVE Str(_)
Str(s) == IF s = <<>> THEN "" ELSE s[1] \o Str(Tail(s))

ErrParseTransition == "parse transition"
ErrNoTransitions   == "no transitions"

\* the zero rune and utf8.RuneError; Transition{} is the zero Transition
ZeroRune  == "\\x00"
RuneError == "\\uFFFD"
ZeroTransition == [NextState |-> "", Move |-> 0, Write |-> ZeroRune]

\* directionTable := map[rune]turing.Direction{'>': Right, '<': Left, '.': Stay}
directionTable == (">" :> Right) @@ ("<" :> Left) @@ ("." :> Stay)

\* The orders in which `range directionTable` may visit the three keys.
VisitOrders ==
    { o \in [1..3 -> DOMAIN directionTable] : \A i, j \in 1..3 : o[i] = o[j] => i = j }

\* strings.ContainsRune(s, r)
ContainsRune(s, r) == \E i \in DOMAIN s : s[i] = r

\* strings.Split(s, sep) for a separator of one character: the pieces of s
\* between the occurrences of sep (one piece more than occurrences).
RECURSIVE Split(_, _)
Split(s, sep) ==
    IF ~ContainsRune(s, sep) THEN <<s>>
    ELSE LET i == CHOOSE k \in DOMAIN s :
                    s[k] = sep /\ \A j \in 1..(k - 1) : s[j] # sep
         IN  <<SubSeq(s, 1, i - 1)>> \o Split(SubSeq(s, i + 1, Len(s)), sep)

\* utf8.DecodeRuneInString(s): the first character
DecodeRuneInString(s) == IF s = <<>> THEN RuneError ELSE s[1]

\* mutant of blankOf: the underscore is kept
blankOf_Keep(r) == r

\* if write == '_' { write = ' ' }
blankOf(r) == IF r = "_" THEN Blank ELSE r

\* ParseTransition(field) when the range visits the separators in `order`:
\* the first separator visited that occurs in the field decides.
ParseTransitionIn(field, order) ==
    LET found == { i \in 1..3 : ContainsRune(field, order[i]) } IN
    IF found = {}
      THEN [transition |-> ZeroTransition, err |-> ErrParseTransition]
    ELSE LET sep    == order[CHOOSE i \in found : \A j \in found : i <= j]
             fields == Split(field, sep)
         IN  IF Len(fields) # 2 \/ fields[1] = <<>> \/ fields[2] = <<>>
               THEN [transition |-> ZeroTransition, err |-> ErrParseTransition]
               ELSE [transition |->
                       [NextState |-> "Q" \o Str(fields[2]),
                        Move      |-> directionTable[sep],
                        Write     |-> blankOf(DecodeRuneInString(fields[1]))],
                     err |-> Nil]

\* The order of a range over a Go map is not fixed: every order may occur.
ParseTransition(field) == { ParseTransitionIn(field, order) : order \in VisitOrders }

\* \d of the state pattern, and the DIGITS of a transition field
Digits == {"0", "1", "2", "3", "4", "5", "6", "7", "8", "9"}

\* The fields: every string of at most MaxFieldLen of these characters.
Chars  == {"1", "2", "_", "Q", "!", ">", "<", "."}
Fields == UNION { [1..n -> Chars] : n \in 0..MaxFieldLen }

\* transition, err := ParseTransition(field), called twice with one field
CallParseTransition ==
    /\ arg = NoCall
    /\ \E field \in Fields :
         \E first, second \in ParseTransition(field) :
           /\ arg' = [op |-> "ParseTransition", field |-> field]
           /\ out' = [first |-> first, second |-> second]
    /\ UNCHANGED rd
    /\ UNCHANGED machineVars

ParseNext == CallParseTransition

ParseSpec == CallInit /\ [][ParseNext]_vars

\* -------------------------------------------------------------- ReadCtx
Tab == "\t"

\* strings.Join(elems, sep) for a separator of one character
RECURSIVE Join(_, _)
Join(elems, sep) ==
    IF elems = <<>> THEN <<>>
    ELSE IF Len(elems) = 1 THEN elems[1]
    ELSE elems[1] \o <<sep>> \o Join(Tail(elems), sep)

\* statePattern.MatchString(s) for the pattern Q\d+: somewhere in s a 'Q' is
\* followed by a digit.
MatchString(s) ==
    \E i \in DOMAIN s : s[i] = "Q" /\ i + 1 \in DOMAIN s /\ s[i + 1] \in Digits

\* A Program value as ReadCtx returns it: the nil map, or a map.
NilProgram == [nil |-> TRUE, map |-> EmptyMap]
Program(map) == [nil |-> FALSE, map |-> map]

\* program[state][symbol] = transition, after
\*   if _, ok := program[state]; !ok { program[state] = make(...) }
put(program, state, symbol, transition) ==
    LET row == IF state \in DOMAIN program THEN program[state] ELSE EmptyMap
    IN  [q \in DOMAIN program \cup {state} |->
           IF q = state
             THEN [c \in DOMAIN row \cup {symbol} |->
                     IF c = symbol THEN transition ELSE row[c]]
             ELSE program[q]]

\* The loop `for i := 1; i < len(fields); i++` from position i on (fields[1]
\* here is fields[0] of the code).  The outcomes, one for every order in
\* which ParseTransition may visit the separators: the program with the
\* row's entries, the first error, or the panic of states[stateIndex] with
\* stateIndex outside the slice.
RECURSIVE rowFrom(_, _, _, _, _, _)
rowFrom(program, states, symbol, fields, i, stateIndex) ==
    IF i > Len(fields)
      THEN { [program |-> program, err |-> Nil, panic |-> FALSE] }
    ELSE IF fields[i] = <<>>
      THEN rowFrom(program, states, symbol, fields, i + 1, stateIndex + 1)
    ELSE UNION {
           IF r.err # Nil
             THEN { [program |-> EmptyMap, err |-> r.err, panic |-> FALSE] }
           ELSE IF stateIndex >= Len(states)
             THEN { [program |-> EmptyMap, err |-> Nil, panic |-> TRUE] }
           ELSE rowFrom(put(program, states[stateIndex + 1], symbol, r.transition),
                        states, symbol, fields, i + 1, stateIndex + 1)
           : r \in ParseTransition(fields[i]) }

\* The texts read: lines of tab-separated fields.  A line without a tab that
\* names states (the data of TestReadCtx_InvalidData), header rows of one and
\* of two states, and rows of a symbol and at most MaxRowFields fields, each
\* empty, a transition, or a field that does not parse (always or sometimes).
RowFields ==
    { <<>>, <<"1", ">", "1">>, <<"_", ".", "2">>, <<"1", "!", "2">>, <<".", ">", "2">> }

RowSymbols == { <<>>, <<"1">>, <<"_">> }

LineFields ==
    { << <<"Q", "1", " ", "Q", "2">> >>,
      << <<>>, <<"Q", "1">> >>,
      << <<>>, <<"Q", "1">>, <<"Q", "2">> >> }
    \cup UNION { { <<symbol>> \o fs : symbol \in RowSymbols, fs \in [1..n -> RowFields] }
                 : n \in 0..MaxRowFields }

ReadLines == { Join(fs, Tab) : fs \in LineFields }

\* program, err := ReadCtx(ctx, r) up to its loop
CallReadCtx ==
    /\ arg = NoCall
    /\ arg' = [op |-> "ReadCtx"]
    /\ rd' = [pc |-> "scan", program |-> EmptyMap, states |-> <<>>,
              inScope |-> FALSE, canceled |-> FALSE]
    /\ UNCHANGED out
    /\ UNCHANGED machineVars

\* ReadCtx returns (or panics).
readReturn(program, err) ==
    /\ rd' = [rd EXCEPT !.pc = "returned"]
    /\ out' = [program |-> program, err |-> err]

readPanic ==
    /\ rd' = [rd EXCEPT !.pc = "panic"]
    /\ out' = [panic |-> "index out of range"]

\* One iteration of `for scanner.Scan()`, the scanner yielding `line`.
ReadLine(line) ==
    /\ rd.pc = "scan"
    /\ LET fields == Split(line, Tab) IN
       IF rd.canceled
         THEN readReturn(NilProgram, ErrCanceled)
       ELSE IF ~rd.inScope
         THEN /\ rd' = IF Len(fields) > 1 /\ MatchString(Join(Tail(fields), " "))
                         THEN [rd EXCEPT !.states = [i \in 1..(Len(fields) - 1) |->
                                                       Str(fields[i + 1])],
                                         !.inScope = TRUE]
                         ELSE rd
              /\ UNCHANGED out
       ELSE IF fields[1] = <<>>
         THEN UNCHANGED <<rd, out>>
       ELSE \E o \in rowFrom(rd.program, rd.states, DecodeRuneInString(fields[1]),
                             fields, 2, 0) :
              IF o.panic THEN readPanic
              ELSE IF o.err # Nil THEN readReturn(NilProgram, o.err)
              ELSE /\ rd' = [rd EXCEPT !.program = o.program]
                   /\ UNCHANGED out
    /\ UNCHANGED arg
    /\ UNCHANGED machineVars

\* scanner.Scan() returns false at the end of the text (the reader itself
\* raises no error): the lines after the loop.
ReadEnd ==
    /\ rd.pc = "scan"
    /\ IF DOMAIN rd.program = {}
         THEN readReturn(NilProgram, ErrNoTransitions)
         ELSE readReturn(Program(rd.program), Nil)
    /\ UNCHANGED arg
    /\ UNCHANGED machineVars

\* The caller cancels the context of the ReadCtx call.
ReadCancel ==
    /\ rd.pc = "scan"
    /\ ~rd.canceled
    /\ rd' = [rd EXCEPT !.canceled = TRUE]
    /\ UNCHANGED <<arg, out>>
    /\ UNCHANGED machineVars

ReadNext ==
    \/ CallReadCtx
    \/ \E line \in ReadLines : ReadLine(line)
    \/ ReadEnd
    \/ ReadCancel

ReadSpec == CallInit /\ [][ReadNext]_vars

\* ================================================================ claims
Running(m)  == pc[m] = "loop"
Returned(m) == pc[m] = "returned"
Tape(m)     == heap[mach[m].tape]        \* contents of m's live tape
Stepping(m) == Running(m) /\ ~ctxDone[m] \* the next iteration of m calls step

\* C1: Exec returns a tape and no error only when the current state is the
\* terminal state (with the start state terminal: the copied input, after
\* zero steps); every other outcome is an error and the nil tape.
C1_SuccessOnlyInTerminalState ==
    \A m \in Machines : Returned(m) =>
        /\ result[m].err = Nil =>
             /\ mach[m].state = mach[m].terminalState
             /\ result[m].tape # NilRef
             /\ result[m].tape = mach[m].tape
        /\ result[m].err # Nil => result[m].tape = NilRef
        /\ mach[m].state # mach[m].terminalState => result[m].err # Nil
        /\ (mach[m].startState = mach[m].terminalState /\ ~ctxDone[m]) =>
             /\ result[m].err = Nil
             /\ mach[m].steps = 0
             /\ heap[result[m].tape] = inputWas[m]

\* a run that halted in the terminal state after applying a transition
C1_Witness ==
    \E m \in Machines :
        /\ Returned(m) /\ result[m].err = Nil
        /\ mach[m].steps > 0 /\ Tape(m) # inputWas[m]

\* C2: with maxSteps = N > 0 no run applies more than N transitions, and a
\* run whose counter reaches N on a transition that did not trip TapeOver
\* fails with StepsExceeded whatever state was entered; with maxSteps = 0
\* no run fails with StepsExceeded.
C2_StepLimit ==
    \A m \in Machines : pc[m] # "idle" =>
        /\ mach[m].maxSteps > 0 =>
             /\ mach[m].steps <= mach[m].maxSteps
             /\ mach[m].steps = mach[m].maxSteps =>
                  /\ Returned(m)
                  /\ result[m].err \in {ErrStepsExceeded, ErrTapeOver}
                  /\ Len_(Tape(m)) < mach[m].maxTapeLength => result[m].err = ErrStepsExceeded
        /\ mach[m].maxSteps = 0 => result[m].err # ErrStepsExceeded

\* the transition that reached the limit entered the terminal state
C2_Witness ==
    \E m \in Machines :
        /\ Returned(m) /\ result[m].err = ErrStepsExceeded
        /\ mach[m].state = mach[m].terminalState
        /\ mach[m].steps = mach[m].maxSteps /\ mach[m].steps > 1

\* C3: after every applied transition, if the tape holds maxTapeLength cells
\* or more the run fails with TapeOver, whichever state was entered and
\* whether or not the step limit was reached by the same transition.
C3_TapeOver ==
    [][\A m \in Machines :
         (/\ ExecCtxLoop(m)
          /\ Stepping(m)
          /\ mach'[m].steps # mach[m].steps
          /\ Len_(heap'[mach'[m].tape]) >= mach[m].maxTapeLength)
         => /\ pc'[m] = "returned"
            /\ result'[m] = [tape |-> NilRef, err |-> ErrTapeOver]]_vars

\* TapeOver on the transition that entered the terminal state and reached
\* the step limit
C3_Witness ==
    \E m \in Machines :
        /\ Returned(m) /\ result[m].err = ErrTapeOver
        /\ mach[m].state = mach[m].terminalState
        /\ mach[m].maxSteps > 0 /\ mach[m].steps = mach[m].maxSteps

\* C4 as stated: every run eventually ends, for every validated program and
\* every configuration, maxSteps = 0 included.
C4_EveryRunEnds ==
    \A m \in Machines : Running(m) ~> Returned(m)

\* C4 amended: every run of a machine with a step limit (maxSteps > 0)
\* eventually ends.
C4_LimitedRunEnds ==
    \A m \in Machines : (Running(m) /\ mach[m].maxSteps > 0) ~> Returned(m)

\* a two-state program stopped by the step limit
C4_Witness ==
    \E m \in Machines :
        /\ Returned(m) /\ result[m].err = ErrStepsExceeded
        /\ mach[m].program \in TwoStatePrograms
        /\ mach[m].state # mach[m].terminalState

\* C5: a transition with move Stay, next state the current state and write
\* symbol the symbol read (blank for a cell never written) makes the step
\* fail with InfiniteLoop and changes nothing; a transition that differs in
\* one of the three is applied and does not raise InfiniteLoop.
C5_InfiniteLoopGuard ==
    [][\A m \in Machines :
         LET sym == IF mach[m].carriage \in DOMAIN Tape(m)
                      THEN Tape(m)[mach[m].carriage] ELSE Blank
         IN  (/\ ExecCtxLoop(m)
              /\ Stepping(m)
              /\ mach[m].state # mach[m].terminalState
              /\ sym \in mach[m].alphabet
              /\ mach[m].state \in DOMAIN mach[m].program
              /\ sym \in DOMAIN mach[m].program[mach[m].state])
             => LET tr == mach[m].program[mach[m].state][sym] IN
                IF tr.Move = Stay /\ tr.NextState = mach[m].state /\ tr.Write = sym
                  THEN /\ result'[m] = [tape |-> NilRef, err |-> ErrInfiniteLoop]
                       /\ pc'[m] = "returned"
                       /\ mach'[m] = mach[m]
                       /\ heap' = heap
                  ELSE /\ result'[m].err # ErrInfiniteLoop
                       /\ mach'[m].steps = (mach[m].steps + 1) % UintModulus
                       /\ mach'[m].carriage = mach[m].carriage + tr.Move
                       /\ mach'[m].state = tr.NextState
                       /\ mach'[m].tape = mach[m].tape
                       /\ heap'[mach[m].tape][mach[m].carriage] = tr.Write]_vars

\* InfiniteLoop raised on a cell that was never written, after a transition
\* was applied
C5_Witness ==
    \E m \in Machines :
        /\ Returned(m) /\ result[m].err = ErrInfiniteLoop
        /\ mach[m].carriage \notin DOMAIN Tape(m)
        /\ mach[m].steps > 0

\* C6 as stated: in every reachable state every symbol of the live tape,
\* copied from the input or written by a transition, is in the alphabet.
C6_AllCellsInAlphabet ==
    \A m \in Machines : pc[m] # "idle" =>
        \A i \in DOMAIN Tape(m) : Tape(m)[i] \in mach[m].alphabet

\* C6 amended: a cell of the live tape holds a symbol outside the alphabet
\* only if it still holds the symbol the caller's input had in that cell
\* (transitions write symbols of the alphabet only; input cells are copied
\* unchecked).
C6_ForeignOnlyFromInput ==
    \A m \in Machines : pc[m] # "idle" =>
        \A i \in DOMAIN Tape(m) :
            Tape(m)[i] \notin mach[m].alphabet =>
                i \in DOMAIN inputWas[m] /\ inputWas[m][i] = Tape(m)[i]

\* a transition has written next to a foreign symbol of the input
C6_Witness ==
    \E m \in Machines :
        /\ pc[m] # "idle" /\ mach[m].steps > 0
        /\ \E i \in DOMAIN Tape(m) : Tape(m)[i] \notin mach[m].alphabet
        /\ \E i \in DOMAIN Tape(m) : i \notin DOMAIN inputWas[m]

\* C8: the run neither aliases nor changes the caller's input map: during
\* and after the call it holds the cells and symbols it held at the call.
C8_InputUntouched ==
    \A m \in Machines : pc[m] # "idle" =>
        /\ heap[input[m]] = inputWas[m]
        /\ mach[m].tape # input[m]
        /\ result[m].tape # input[m]

\* a call that failed after its transitions changed the tape
C8_Witness ==
    \E m \in Machines :
        /\ Returned(m) /\ result[m].err \notin {Nil, ErrCanceled}
        /\ Tape(m) # inputWas[m]
        /\ heap[input[m]] = inputWas[m]

\* C7 as stated: the tape Exec returns keeps no alias to the machine's
\* tape: a write of the caller into the returned map does not change the
\* map the machine's tape field refers to.
C7_ReturnedTapeNotAliased ==
    [][\A m \in Machines, sym \in Symbols :
         CallerMutate(m, 0, sym) => heap'[mach[m].tape] = heap[mach[m].tape]]_vars

\* C9: the outcome of every call of Exec on a machine, after whatever calls
\* were made before, is the outcome of the same call (carriage, input) run
\* alone (same error; on success the same tape), and no call changes a tape
\* an earlier call returned.
C9_CallsIndependent ==
    [][/\ \A m \in Machines :
            (ExecCtxLoop(m) /\ pc'[m] = "returned") =>
               /\ result'[m].err = alone'[m].err
               /\ result'[m].err = Nil => heap'[result'[m].tape] = alone'[m].tape
       /\ \A r \in held :
            \/ heap'[r] = heap[r]
            \/ \E m \in Machines, sym \in Symbols : CallerMutate(m, 0, sym)]_vars

\* machine 1, never copied, has returned from its third call, a failed one,
\* after two calls that returned tapes
C9_Witness ==
    /\ \A m \in Machines \ {1} : ~mach[m].exists
    /\ callsLeft <= MaxCalls - 3
    /\ Returned(1) /\ result[1].err # Nil
    /\ Cardinality(held) = 2

\* C10: a run on a copy of the machine, its steps interleaved with those of
\* a run on another copy, proceeds as it does alone: at every step its
\* carriage, state, step counter and tape are those of the run alone, its
\* tape is not the tape of another running machine, and it returns the
\* error (or none) of the run alone.
C10_CopiesRunAlone ==
    \A m \in Machines \ {1} :
        /\ Running(m) =>
             /\ mach[m].carriage = alone[m].carriage
             /\ mach[m].state = alone[m].state
             /\ mach[m].steps = alone[m].steps
             /\ Tape(m) = alone[m].tape
             /\ \A n \in Machines \ {m} : Running(n) => mach[n].tape # mach[m].tape
        /\ Returned(m) => result[m].err = alone[m].err

\* two copies of a machine that was already used are both in the middle of
\* a run
C10_Witness ==
    /\ Returned(1) /\ result[1].err = Nil
    /\ Running(2) /\ mach[2].steps > 0
    /\ Running(3) /\ mach[3].steps > 0
    /\ Tape(2) # Tape(3)


\* C11: the cancellation signal is looked at before every step.  Once it has
\* fired, the next iteration applies no transition (machine and tapes are
\* left as they are) and ExecCtx returns the cancellation error and a nil
\* tape, also when the current state is already the terminal state; an
\* iteration of a call whose signal has not fired never returns the
\* cancellation error.
C11_CancelBeforeStep ==
    [][\A m \in Machines :
         ExecCtxLoop(m) =>
           /\ ctxDone[m] =>
                 /\ mach' = mach
                 /\ heap' = heap
                 /\ Returned(m)'
                 /\ result'[m] = [tape |-> NilRef, err |-> ErrCanceled]
           /\ ~ctxDone[m] => result'[m].err # ErrCanceled]_vars

\* a call cancelled after a step took the machine into its terminal state
C11_Witness ==
    \E m \in Machines :
      /\ Returned(m)
      /\ result[m] = [tape |-> NilRef, err |-> ErrCanceled]
      /\ mach[m].steps > 0
      /\ mach[m].state = mach[m].terminalState


\* The symbol under the carriage of m, blank where the tape has no cell, and
\* whether the program of m has an entry for it in the current state.
SymbolAt(m) ==
    IF mach[m].carriage \in DOMAIN Tape(m) THEN Tape(m)[mach[m].carriage] ELSE Blank

EntryAt(m) ==
    /\ mach[m].state \in DOMAIN mach[m].program
    /\ SymbolAt(m) \in DOMAIN mach[m].program[mach[m].state]

\* The iteration of m fails with err: nil tape, machine and tapes as before.
FailsUnchanged(m, err) ==
    /\ Returned(m)'
    /\ result'[m] = [tape |-> NilRef, err |-> err]
    /\ mach' = mach
    /\ heap' = heap

\* C12 as stated: a step outside the terminal state for which the program has
\* no entry for (current state, symbol read) fails with TransitionNotFound and
\* leaves tape, carriage, state and step counter unchanged.
C12_MissingTransitionFails ==
    [][\A m \in Machines :
         (ExecCtxLoop(m) /\ Stepping(m)
            /\ mach[m].state # mach[m].terminalState /\ ~EntryAt(m))
         => FailsUnchanged(m, ErrTransitionNotFound)]_vars

\* C12 amended: the same, for a symbol read that belongs to the
\* blank-augmented alphabet (the state may be no key of the program at all).
C12_MissingTransitionOfKnownSymbol ==
    [][\A m \in Machines :
         (ExecCtxLoop(m) /\ Stepping(m)
            /\ mach[m].state # mach[m].terminalState /\ ~EntryAt(m)
            /\ SymbolAt(m) \in mach[m].alphabet)
         => FailsUnchanged(m, ErrTransitionNotFound)]_vars

\* the start state is no key of the program: the first step fails
C12_Witness ==
    \E m \in Machines :
      /\ Returned(m)
      /\ result[m] = [tape |-> NilRef, err |-> ErrTransitionNotFound]
      /\ mach[m].state \notin DOMAIN mach[m].program
      /\ mach[m].steps = 0
      /\ Tape(m) = inputWas[m]

\* C13: a symbol under the carriage that is not in the blank-augmented
\* alphabet makes the step fail with UnexpectedSymbol, whether or not the
\* program has an entry for it, and nothing is changed; a cell that was never
\* written reads as blank and never raises UnexpectedSymbol.
C13_UnexpectedSymbolFirst ==
    [][\A m \in Machines :
         (ExecCtxLoop(m) /\ Stepping(m) /\ mach[m].state # mach[m].terminalState)
         => /\ SymbolAt(m) \notin mach[m].alphabet
                 => FailsUnchanged(m, ErrUnexpectedSymbol)
            /\ mach[m].carriage \notin DOMAIN Tape(m)
                 => result'[m].err # ErrUnexpectedSymbol]_vars

\* the program has an entry for the foreign symbol that was read
C13_Witness ==
    \E m \in Machines :
      /\ Returned(m)
      /\ result[m] = [tape |-> NilRef, err |-> ErrUnexpectedSymbol]
      /\ SymbolAt(m) \notin mach[m].alphabet
      /\ EntryAt(m)


\* ------------------------------------------------- claims on validation
\* What an entry of a program may be wrong in.
MoveWrong(transition) == transition.Move \notin {Left, Right, Stay}
WriteWrong(transition, alphabet) == transition.Write \notin alphabet
NextWrong(tp, transition, terminalState) ==
    transition.NextState # terminalState /\ transition.NextState \notin DOMAIN tp

Entries(tp) == UNION { { tp[q][s] : s \in DOMAIN tp[q] } : q \in DOMAIN tp }

EveryEntryFine(tp, alphabet, terminalState) ==
    \A transition \in Entries(tp) :
      /\ ~MoveWrong(transition)
      /\ ~WriteWrong(transition, alphabet)
      /\ ~NextWrong(tp, transition, terminalState)

Validated  == arg.op = "Validate"
Constructed == arg.op = "NewMachine"

\* C14: Validate returns no error if and only if every entry has a move in
\* {Left, Right, Stay}, a write symbol in the blank-augmented alphabet and a
\* next state that is the terminal state or a key of the program; NewMachine
\* with non-empty start and terminal states and maxTapeLength > 0 returns a
\* machine and no error exactly for those programs.
C14_ValidIffEveryEntryFine ==
    /\ Validated =>
         (out.err = Nil <=> EveryEntryFine(arg.program, arg.alphabet, arg.terminalState))
    /\ (Constructed /\ arg.startState # "" /\ arg.terminalState # ""
          /\ arg.maxTapeLength > 0) =>
         /\ out.err = Nil <=> EveryEntryFine(arg.program, arg.alphabet, arg.terminalState)
         /\ out.machine.exists <=> out.err = Nil

\* a program of two entries is accepted whose next states are the terminal
\* state, which is no key, and a key without entries
C14_Witness ==
    /\ Constructed
    /\ out.err = Nil
    /\ out.machine.exists
    /\ arg.terminalState \notin DOMAIN arg.program
    /\ { transition.NextState : transition \in Entries(arg.program) } = {"Q0", "Q2"}


\* C15 as stated: when some entry's write symbol is outside the
\* blank-augmented alphabet, validation fails with UnexpectedSymbol, whatever
\* else is wrong in the program and whatever the order of the visit.
C15_ForeignWriteIsUnexpectedSymbol ==
    (Validated /\ \E transition \in Entries(arg.program) :
                    WriteWrong(transition, arg.alphabet))
    => out.err = ErrUnexpectedSymbol

\* C15 amended: such a program fails validation; the error is
\* UnexpectedSymbol when no entry has an invalid move and every entry whose
\* next state is unknown has a foreign write symbol as well.
C15_ForeignWriteFails ==
    (Validated /\ \E transition \in Entries(arg.program) :
                    WriteWrong(transition, arg.alphabet))
    => /\ out.err # Nil
       /\ (\A transition \in Entries(arg.program) :
              /\ ~MoveWrong(transition)
              /\ NextWrong(arg.program, transition, arg.terminalState)
                   => WriteWrong(transition, arg.alphabet))
          => out.err = ErrUnexpectedSymbol

\* an entry wrong in its write symbol and in its next state, next to a sound
\* entry: UnexpectedSymbol
C15_Witness ==
    /\ Validated
    /\ out.err = ErrUnexpectedSymbol
    /\ \E transition \in Entries(arg.program) :
         /\ WriteWrong(transition, arg.alphabet)
         /\ NextWrong(arg.program, transition, arg.terminalState)
    /\ \E transition \in Entries(arg.program) :
         /\ ~MoveWrong(transition)
         /\ ~WriteWrong(transition, arg.alphabet)
         /\ ~NextWrong(arg.program, transition, arg.terminalState)

\* C16 as stated: when some entry's next state is neither a key of the
\* program nor the terminal state, validation fails with StateNotFound,
\* whatever else is wrong in the program and whatever the order of the visit.
C16_UnknownStateIsStateNotFound ==
    (Validated /\ \E transition \in Entries(arg.program) :
                    NextWrong(arg.program, transition, arg.terminalState))
    => out.err = ErrStateNotFound

\* C16 amended: such a program fails validation; the error is StateNotFound
\* when no entry has an invalid move or a foreign write symbol.
C16_UnknownStateFails ==
    (Validated /\ \E transition \in Entries(arg.program) :
                    NextWrong(arg.program, transition, arg.terminalState))
    => /\ out.err # Nil
       /\ (\A transition \in Entries(arg.program) :
              ~MoveWrong(transition) /\ ~WriteWrong(transition, arg.alphabet))
          => out.err = ErrStateNotFound

\* Q2 is no key and not the terminal state; another entry is sound
C16_Witness ==
    /\ Validated
    /\ out.err = ErrStateNotFound
    /\ "Q2" \notin DOMAIN arg.program
    /\ \E transition \in Entries(arg.program) :
         ~NextWrong(arg.program, transition, arg.terminalState)

\* C17 as stated: with maxTapeLength = 0 NewMachine fails with
\* InvalidMaxTapeLength and returns no machine, whatever the start state, the
\* terminal state and the program are.
C17_ZeroTapeLengthRejected ==
    (Constructed /\ arg.maxTapeLength = 0)
    => out.err = ErrInvalidMaxTapeLength /\ ~out.machine.exists

\* C17 amended: the same for non-empty start and terminal state names,
\* whatever the program is; with an empty name it is that name's error.
C17_ZeroTapeLengthAfterNames ==
    (Constructed /\ arg.maxTapeLength = 0)
    => /\ ~out.machine.exists
       /\ out.err = IF arg.startState = "" THEN ErrStartStateEmpty
                    ELSE IF arg.terminalState = "" THEN ErrTerminalStateEmpty
                    ELSE ErrInvalidMaxTapeLength

\* the program would not pass validation, yet the tape length is reported
C17_Witness ==
    /\ Constructed
    /\ arg.maxTapeLength = 0
    /\ out.err = ErrInvalidMaxTapeLength
    /\ ~EveryEntryFine(arg.program, arg.alphabet, arg.terminalState)


\* ---------------------------------------------------- claims on parsing
Parsed == arg.op = "ParseTransition"

\* The transition field grammar SYMBOL SEP DIGITS: one character, one of the
\* three separators, one digit or more.
InGrammar(field) ==
    /\ Len(field) >= 3
    /\ field[2] \in DOMAIN directionTable
    /\ \A i \in 3..Len(field) : field[i] \in Digits

\* C18: parsing the same transition field twice yields the same outcome
\* (equal Transition values or the same error), also for a field whose
\* symbol is one of '>', '<', '.' and so holds two distinct separator
\* characters.
C18_ParsingDeterministic ==
    (Parsed /\ InGrammar(arg.field)) => out.first = out.second


\* The separator characters that occur in a field, and the outcomes.
SeparatorsIn(field) == { field[i] : i \in DOMAIN field } \cap {">", "<", "."}

ParseFailed == [transition |-> ZeroTransition, err |-> ErrParseTransition]

ParsedAs(nextState, move_, write_) ==
    [transition |-> T(nextState, move_, write_), err |-> Nil]

\* C19: for a field s SEP d in which SEP is the only separator character and
\* s and d are not empty, ParseTransition returns the next state "Q" + d, the
\* move of SEP (Right for '>', Left for '<', Stay for '.') and as write symbol
\* the first character of s, blank for '_'; for a field without a separator
\* character, or one that SEP does not split into exactly two non-empty
\* parts, it returns the zero Transition and the error ParseTransition.
C19_ParseTransitionResult ==
    (Parsed /\ Cardinality(SeparatorsIn(arg.field)) <= 1) =>
      LET field == arg.field
          at    == { i \in DOMAIN field : field[i] \in {">", "<", "."} }
          i     == CHOOSE k \in at : TRUE
          want  == IF Cardinality(at) = 1 /\ 1 \notin at /\ Len(field) \notin at
                     THEN ParsedAs("Q" \o Str(SubSeq(field, i + 1, Len(field))),
                                   CASE field[i] = ">" -> Right
                                     [] field[i] = "<" -> Left
                                     [] field[i] = "." -> Stay,
                                   IF field[1] = "_" THEN Blank ELSE field[1])
                     ELSE ParseFailed
      IN  out.first = want /\ out.second = want

\* "_.2" is parsed as {Q2, Stay, ' '}
C19_Witness ==
    /\ Parsed
    /\ arg.field = <<"_", ".", "2">>
    /\ out.first = ParsedAs("Q2", Stay, Blank)


\* ------------------------------------------------------ claims on ReadCtx
\* The transitions a field may be parsed as.
TransitionsOf(field) == { r.transition : r \in { x \in ParseTransition(field) : x.err = Nil } }

\* Reading the row `line` recorded its entries: every non-empty field at
\* position i >= 1 is in the program under (the i-th header state, the symbol
\* of the row), the last such field of a state winning, and nothing else of
\* the program has changed.
RowRecorded(line) ==
    LET fields == Split(line, Tab)
        symbol == fields[1][1]
        filled == { i \in 1..(Len(fields) - 1) : fields[i + 1] # <<>> }
        states == rd.states
    IN  /\ rd'.pc = "scan"
        /\ \A i \in filled : i \in DOMAIN states
        /\ \A i \in filled :
             (\A j \in filled : j > i => states[j] # states[i])
             => /\ states[i] \in DOMAIN rd'.program
                /\ symbol \in DOMAIN rd'.program[states[i]]
                /\ rd'.program[states[i]][symbol] \in TransitionsOf(fields[i + 1])
        /\ \A q \in DOMAIN rd'.program : \A c \in DOMAIN rd'.program[q] :
             (c # symbol \/ \A i \in filled : states[i] # q)
             => /\ q \in DOMAIN rd.program
                /\ c \in DOMAIN rd.program[q]
                /\ rd'.program[q][c] = rd.program[q][c]
        /\ \A q \in DOMAIN rd.program :
             /\ q \in DOMAIN rd'.program
             /\ DOMAIN rd.program[q] \subseteq DOMAIN rd'.program[q]

\* Reading the row `line` ended the call with the error of a field that does
\* not parse.
RowRejected(line) ==
    LET fields == Split(line, Tab) IN
    /\ \E i \in 2..Len(fields) :
         fields[i] # <<>> /\ ParseFailed \in ParseTransition(fields[i])
    /\ rd'.pc = "returned"
    /\ out' = [program |-> NilProgram, err |-> ErrParseTransition]

\* C20: once a header row has been found, ReadCtx records for every later row
\* with a non-empty first field every non-empty field at position i >= 1 as
\* the parsed transition under (the i-th header state, the row's symbol),
\* empty fields being skipped while the state position advances and a later
\* row overwriting an earlier entry; it returns nil and the error as soon as
\* a field fails to parse; at the end of the text it fails with NoTransitions
\* when no entry was recorded and returns the program otherwise.
C20_TableRowsRecorded ==
    [][/\ \A line \in ReadLines :
            (ReadLine(line) /\ rd.inScope /\ ~rd.canceled /\ Split(line, Tab)[1] # <<>>)
            => RowRecorded(line) \/ RowRejected(line)
       /\ ReadEnd =>
            out' = IF \A q \in DOMAIN rd.program : DOMAIN rd.program[q] = {}
                     THEN [program |-> NilProgram, err |-> ErrNoTransitions]
                     ELSE [program |-> Program(rd.program), err |-> Nil]]_vars


\* ------------------------------------------- claims on the test machines
\* C21: the increment machine, run from carriage 0 on the input with '1' in
\* the cells 0..n (n in 0..9), succeeds and returns a tape of exactly n + 2
\* cells, all '1': the cells -1..n; also when the runs are made one after
\* another on the same machine.
C21_IncrementAddsOne ==
    \A m \in Machines :
      Returned(m) =>
        LET n == Cardinality(DOMAIN inputWas[m]) - 1 IN
        /\ result[m].err = Nil
        /\ result[m].tape # NilRef
        /\ DOMAIN heap[result[m].tape] = (-1)..n
        /\ Cardinality(DOMAIN heap[result[m].tape]) = n + 2
        /\ \A k \in DOMAIN heap[result[m].tape] : heap[result[m].tape][k] = "1"

\* the last of the runs on the machine, on the largest input: eleven cells
C21_Witness ==
    /\ Returned(1)
    /\ callsLeft = 0
    /\ inputWas[1] = UnaryInput(IncrementLargest)
    /\ result[1].err = Nil
    /\ Cardinality(DOMAIN heap[result[1].tape]) = IncrementLargest + 2


\* C22: the addition machine, run from carriage -i on the input with '1' in
\* the cells -i..-1, '+' in cell 0 and '1' in the cells 1..j (i, j in 1..9),
\* succeeds and returns a tape whose non-blank cells are exactly i + j - 1
\* cells holding '1'; no '+' is left and every other occupied cell is blank.
C22_AdditionAdds ==
    \A m \in Machines :
      Returned(m) =>
        LET i    == Cardinality({ k \in DOMAIN inputWas[m] : k < 0 })
            j    == Cardinality({ k \in DOMAIN inputWas[m] : k > 0 })
            tape == heap[result[m].tape]
        IN  /\ result[m].err = Nil
            /\ result[m].tape # NilRef
            /\ Cardinality({ k \in DOMAIN tape : tape[k] = "1" }) = i + j - 1
            /\ \A k \in DOMAIN tape : tape[k] \in {"1", Blank}

\* 9 + 9: seventeen cells hold '1' after the longest run
C22_Witness ==
    /\ Returned(1)
    /\ result[1].err = Nil
    /\ inputWas[1] = SumInput(AdditionLargest, AdditionLargest)
    /\ mach[1].steps = 2 * AdditionLargest + 3
    /\ Cardinality({ k \in DOMAIN Tape(1) : Tape(1)[k] = "1" }) = 2 * AdditionLargest - 1


\* C23: for a machine NewMachine accepted, in every state of every run the
\* current state is the start state, the terminal state or a key of the
\* program; so, when the start state is a key of the program or the terminal
\* state, TransitionNotFound is raised only for a symbol without entry in a
\* state that is a key, never for a state the program does not define.
C23_StateIsDefined ==
    \A m \in Machines :
      (mach[m].exists /\ pc[m] # "idle") =>
        /\ mach[m].state \in
             {mach[m].startState, mach[m].terminalState} \cup DOMAIN mach[m].program
        /\ (/\ mach[m].startState \in DOMAIN mach[m].program \cup {mach[m].terminalState}
            /\ Returned(m)
            /\ result[m].err = ErrTransitionNotFound)
           => /\ mach[m].state \in DOMAIN mach[m].program
              /\ SymbolAt(m) \notin DOMAIN mach[m].program[mach[m].state]

\* the run left the start state Q1 for the key Q2 and found no entry there
C23_Witness ==
    \E m \in Machines :
      /\ Returned(m)
      /\ result[m].err = ErrTransitionNotFound
      /\ mach[m].startState = "Q1"
      /\ mach[m].state = "Q2"
      /\ mach[m].steps > 0
      /\ "Q2" \in DOMAIN mach[m].program


\* C24: for every input ReadCtx ends by returning a Program or an error: the
\* state position with which it indexes the header's state list is always
\* within the list, also for a row that has more fields after its symbol
\* than the header row has states, so the call never panics.
C24_StatePositionWithinHeader ==
    rd.pc # "panic"

====
